---- MODULE Spec2Model ----
(***************************************************************************)
(* Model of `wrangler tail` (src/tail/mod.rs): Tail::run wires three       *)
(* oneshot channels, spawns the ctrl-c listener and the three              *)
(* collaborators (LogServer, Tunnel, Session) on a tokio runtime and joins *)
(* the four JoinHandles with tokio::try_join!.                             *)
(*                                                                         *)
(* A JoinHandle<Result<(), failure::Error>> resolves to                    *)
(* Result<Result<(), failure::Error>, JoinError>: the outer Err is a task  *)
(* that panicked, the inner Err is the task's own error result.            *)
(* try_join! short-circuits on the outer Err only.                         *)
(***************************************************************************)
EXTENDS Naturals, Sequences, FiniteSets

VARIABLES
    pc,          \* position of the async block of Tail::run
    ret,         \* what Tail::run has returned, tag "running" until it returns
    acq,         \* outcome of Tunnel::new()
    status,      \* per unit: "unspawned", "running", "done"
    result,      \* per unit: "none", "ok", "err" (returned Err), "panic"
    lpc,         \* position of listen_for_sigint
    idx,         \* index of the next element of txs in the `for tx in txs` loop
    txHolder,    \* per channel: who owns the Sender
    rxHolder,    \* per channel: who owns the Receiver
    attempts,    \* per channel: number of tx.send(()) calls
    sent,        \* per channel: number of tx.send(()) calls that returned Ok
    recv,        \* per channel: number of notifications the consumer observed
    interrupts,  \* number of ctrl-c events delivered to the process
    sigPending,  \* a ctrl-c event the subscribed stream has not yet yielded
    fires,       \* number of times ctrl_c().await completed with a signal
    failOrder    \* units that finished with an error result before run returned, oldest first

vars == <<pc, ret, acq, status, result, lpc, idx, txHolder, rxHolder,
          attempts, sent, recv, interrupts, sigPending, fires, failOrder>>

\* Bound on the number of ctrl-c events delivered in one session.
MaxInterrupts == 2

\* The three collaborators, named as the channel variables of Tail::run.
Collabs == {"log_server", "tunnel", "session"}

Units == {"listener"} \cup Collabs

\* let txs = vec![log_tx, tunnel_tx, session_tx];
txs == <<"log_server", "tunnel", "session">>

\* tokio::try_join!(listener, log_server, session, tunnel)
joinOrder == <<"listener", "log_server", "session", "tunnel">>

Running == [tag |-> "running", err |-> "none", unit |-> "none"]
RetOk == [tag |-> "Ok", err |-> "none", unit |-> "none"]
RetErr(e, u) == [tag |-> "Err", err |-> e, unit |-> u]

Init ==
    /\ pc = "new_runtime"
    /\ ret = Running
    /\ acq = "none"
    /\ status = [u \in Units |-> "unspawned"]
    /\ result = [u \in Units |-> "none"]
    /\ lpc = "init"
    /\ idx = 1
    /\ txHolder = [c \in Collabs |-> "none"]
    /\ rxHolder = [c \in Collabs |-> "none"]
    /\ attempts = [c \in Collabs |-> 0]
    /\ sent = [c \in Collabs |-> 0]
    /\ recv = [c \in Collabs |-> 0]
    /\ interrupts = 0
    /\ sigPending = FALSE
    /\ fires = 0
    /\ failOrder = <<>>

----------------------------------------------------------------------------
(* Tail::run *)

\* let mut runtime = TokioRuntime::new()?;
Runtime_new ==
    /\ pc = "new_runtime"
    /\ \E ok \in BOOLEAN :
          IF ok
          THEN /\ pc' = "channels"
               /\ ret' = ret
          ELSE /\ pc' = "returned"
               /\ ret' = RetErr("runtime", "none")
    /\ UNCHANGED <<acq, status, result, lpc, idx, txHolder, rxHolder, attempts,
                   sent, recv, interrupts, sigPending, fires, failOrder>>

\* the three oneshot::channel() calls and the txs vector
oneshot_channel ==
    /\ pc = "channels"
    /\ pc' = "spawn_listener"
    /\ txHolder' = [c \in Collabs |-> "run"]
    /\ rxHolder' = [c \in Collabs |-> "run"]
    /\ UNCHANGED <<ret, acq, status, result, lpc, idx, attempts, sent, recv,
                   interrupts, sigPending, fires, failOrder>>

\* A variant of spawn_listener in which run keeps session_tx for itself.
spawn_listener_KeepsOne ==
    /\ pc = "spawn_listener"
    /\ pc' = "spawn_log_server"
    /\ status' = [status EXCEPT !["listener"] = "running"]
    /\ txHolder' = [c \in Collabs |-> IF c = "session" THEN "run" ELSE "listener"]
    /\ UNCHANGED <<ret, acq, result, lpc, idx, rxHolder, attempts, sent, recv,
                   interrupts, sigPending, fires, failOrder>>

\* let listener = tokio::spawn(listen_for_sigint(txs));
spawn_listener ==
    /\ pc = "spawn_listener"
    /\ pc' = "spawn_log_server"
    /\ status' = [status EXCEPT !["listener"] = "running"]
    /\ txHolder' = [c \in Collabs |-> "listener"]
    /\ UNCHANGED <<ret, acq, result, lpc, idx, rxHolder, attempts, sent, recv,
                   interrupts, sigPending, fires, failOrder>>

\* let log_server = tokio::spawn(LogServer::new(log_rx).run());
spawn_log_server ==
    /\ pc = "spawn_log_server"
    /\ pc' = "acquire"
    /\ status' = [status EXCEPT !["log_server"] = "running"]
    /\ rxHolder' = [rxHolder EXCEPT !["log_server"] = "log_server"]
    /\ UNCHANGED <<ret, acq, result, lpc, idx, txHolder, attempts, sent, recv,
                   interrupts, sigPending, fires, failOrder>>

\* A variant of Tunnel_new that tells the log server to stop before it
\* returns the acquisition error.
Tunnel_new_CancelOnFail ==
    /\ pc = "acquire"
    /\ \E ok \in BOOLEAN :
          IF ok
          THEN /\ acq' = "ok"
               /\ pc' = "spawn_tunnel"
               /\ UNCHANGED <<ret, rxHolder, attempts, sent>>
          ELSE /\ acq' = "failed"
               /\ pc' = "returned"
               /\ ret' = RetErr("acquisition", "none")
               /\ rxHolder' = [rxHolder EXCEPT !["tunnel"] = "dropped",
                                               !["session"] = "dropped"]
               /\ attempts' = [attempts EXCEPT !["log_server"] = @ + 1]
               /\ sent' = IF rxHolder["log_server"] # "dropped"
                          THEN [sent EXCEPT !["log_server"] = @ + 1]
                          ELSE sent
    /\ UNCHANGED <<status, result, lpc, idx, txHolder, recv,
                   interrupts, sigPending, fires, failOrder>>

\* A variant of Tunnel_new that ignores the error and goes on to spawn.
Tunnel_new_NoReturn ==
    /\ pc = "acquire"
    /\ pc' = "spawn_tunnel"
    /\ \E ok \in BOOLEAN :
          IF ok
          THEN /\ acq' = "ok"
               /\ ret' = ret
          ELSE /\ acq' = "failed"
               /\ ret' = RetErr("acquisition", "none")
    /\ UNCHANGED <<status, result, lpc, idx, txHolder, rxHolder, attempts,
                   sent, recv, interrupts, sigPending, fires, failOrder>>

\* let tunnel_process = Tunnel::new()?;
\* On Err the `?` leaves the async block: tunnel_rx and session_rx, still
\* owned by the block, are dropped; nothing is sent to, or awaited from, the
\* tasks already spawned.
Tunnel_new ==
    /\ pc = "acquire"
    /\ \E ok \in BOOLEAN :
          IF ok
          THEN /\ acq' = "ok"
               /\ pc' = "spawn_tunnel"
               /\ UNCHANGED <<ret, rxHolder>>
          ELSE /\ acq' = "failed"
               /\ pc' = "returned"
               /\ ret' = RetErr("acquisition", "none")
               /\ rxHolder' = [rxHolder EXCEPT !["tunnel"] = "dropped",
                                               !["session"] = "dropped"]
    /\ UNCHANGED <<status, result, lpc, idx, txHolder, attempts, sent, recv,
                   interrupts, sigPending, fires, failOrder>>

\* let tunnel = tokio::spawn(tunnel_process.run(tunnel_rx));
spawn_tunnel ==
    /\ pc = "spawn_tunnel"
    /\ pc' = "spawn_session"
    /\ status' = [status EXCEPT !["tunnel"] = "running"]
    /\ rxHolder' = [rxHolder EXCEPT !["tunnel"] = "tunnel"]
    /\ UNCHANGED <<ret, acq, result, lpc, idx, txHolder, attempts, sent, recv,
                   interrupts, sigPending, fires, failOrder>>

\* let session = tokio::spawn(Session::run(target, user, session_rx));
spawn_session ==
    /\ pc = "spawn_session"
    /\ pc' = "join"
    /\ status' = [status EXCEPT !["session"] = "running"]
    /\ rxHolder' = [rxHolder EXCEPT !["session"] = "session"]
    /\ UNCHANGED <<ret, acq, result, lpc, idx, txHolder, attempts, sent, recv,
                   interrupts, sigPending, fires, failOrder>>

\* The handles whose JoinHandle resolved to Err(JoinError).
JoinErrs == {i \in 1..Len(joinOrder) : result[joinOrder[i]] = "panic"}

FirstJoinErr == CHOOSE i \in JoinErrs : \A j \in JoinErrs : i <= j

\* A variant of try_join that waits for all four handles before it looks at
\* their results (join!, then the first Err).
try_join_WaitAll ==
    /\ pc = "join"
    /\ \A u \in Units : status[u] = "done"
    /\ pc' = "returned"
    /\ ret' = IF JoinErrs # {}
              THEN RetErr("join", joinOrder[FirstJoinErr])
              ELSE RetOk
    /\ UNCHANGED <<acq, status, result, lpc, idx, txHolder, rxHolder, attempts,
                   sent, recv, interrupts, sigPending, fires, failOrder>>

\* A variant of try_join that is ready as soon as any one handle resolves.
try_join_Any ==
    /\ pc = "join"
    /\ \/ JoinErrs # {}
       \/ \E u \in Units : status[u] = "done"
    /\ pc' = "returned"
    /\ ret' = IF JoinErrs # {}
              THEN RetErr("join", joinOrder[FirstJoinErr])
              ELSE RetOk
    /\ UNCHANGED <<acq, status, result, lpc, idx, txHolder, rxHolder, attempts,
                   sent, recv, interrupts, sigPending, fires, failOrder>>

\* A variant of try_join that waits for the three collaborators only.
try_join_CollabsOnly ==
    /\ pc = "join"
    /\ \/ JoinErrs # {}
       \/ \A c \in Collabs : status[c] = "done"
    /\ pc' = "returned"
    /\ ret' = IF JoinErrs # {}
              THEN RetErr("join", joinOrder[FirstJoinErr])
              ELSE RetOk
    /\ UNCHANGED <<acq, status, result, lpc, idx, txHolder, rxHolder, attempts,
                   sent, recv, interrupts, sigPending, fires, failOrder>>

\* let res = tokio::try_join!(listener, log_server, session, tunnel);
\* match res { Ok(_) => Ok(()), Err(e) => failure::bail!(e) }
\* One poll of try_join! that is Ready: the handles are looked at in argument
\* order, a pending one is skipped, the first one that resolved to
\* Err(JoinError) ends the join at once; with all four resolved to Ok(_) the
\* join is Ok(_), whatever the tasks' own results, and run returns Ok(()).
try_join ==
    /\ pc = "join"
    /\ \/ JoinErrs # {}
       \/ \A u \in Units : status[u] = "done"
    /\ pc' = "returned"
    /\ ret' = IF JoinErrs # {}
              THEN RetErr("join", joinOrder[FirstJoinErr])
              ELSE RetOk
    /\ UNCHANGED <<acq, status, result, lpc, idx, txHolder, rxHolder, attempts,
                   sent, recv, interrupts, sigPending, fires, failOrder>>

----------------------------------------------------------------------------
(* listen_for_sigint *)

\* What a unit's return adds to the record of failures.
Failed(u, r) ==
    IF r \in {"err", "panic"} /\ ret.tag = "running"
    THEN Append(failOrder, u)
    ELSE failOrder

\* A variant of ctrl_c_register that does not wait for the signal: once
\* subscribed the listener goes straight to the loop over txs.
ctrl_c_register_NoWait ==
    /\ status["listener"] = "running"
    /\ lpc = "init"
    /\ \E ok \in BOOLEAN :
          IF ok
          THEN /\ lpc' = "sending"
               /\ UNCHANGED <<status, result, txHolder, failOrder>>
          ELSE /\ lpc' = "failed"
               /\ status' = [status EXCEPT !["listener"] = "done"]
               /\ result' = [result EXCEPT !["listener"] = "err"]
               /\ txHolder' = [c \in Collabs |-> "dropped"]
               /\ failOrder' = Failed("listener", "err")
    /\ UNCHANGED <<pc, ret, acq, idx, rxHolder, attempts, sent, recv,
                   interrupts, sigPending, fires>>

\* A variant of ctrl_c_register that notifies the collaborators before it
\* returns the subscription error.
ctrl_c_register_NotifyOnFail ==
    /\ status["listener"] = "running"
    /\ lpc = "init"
    /\ \E ok \in BOOLEAN :
          IF ok
          THEN /\ lpc' = "waiting"
               /\ UNCHANGED <<status, result, txHolder, failOrder, attempts, sent>>
          ELSE /\ lpc' = "failed"
               /\ status' = [status EXCEPT !["listener"] = "done"]
               /\ result' = [result EXCEPT !["listener"] = "err"]
               /\ attempts' = [c \in Collabs |-> attempts[c] + 1]
               /\ sent' = [c \in Collabs |->
                             IF rxHolder[c] # "dropped" THEN sent[c] + 1
                             ELSE sent[c]]
               /\ txHolder' = [c \in Collabs |-> "consumed"]
               /\ failOrder' = Failed("listener", "err")
    /\ UNCHANGED <<pc, ret, acq, idx, rxHolder, recv,
                   interrupts, sigPending, fires>>

\* tokio::signal::ctrl_c() registers the process-wide SIGINT subscription on
\* the first poll of the task; a registration error leaves through `?`:
\* the task returns Err and txs is dropped with nothing sent.
ctrl_c_register ==
    /\ status["listener"] = "running"
    /\ lpc = "init"
    /\ \E ok \in BOOLEAN :
          IF ok
          THEN /\ lpc' = "waiting"
               /\ UNCHANGED <<status, result, txHolder, failOrder>>
          ELSE /\ lpc' = "failed"
               /\ status' = [status EXCEPT !["listener"] = "done"]
               /\ result' = [result EXCEPT !["listener"] = "err"]
               /\ txHolder' = [c \in Collabs |-> "dropped"]
               /\ failOrder' = Failed("listener", "err")
    /\ UNCHANGED <<pc, ret, acq, idx, rxHolder, attempts, sent, recv,
                   interrupts, sigPending, fires>>

\* The operator presses ctrl-c. Before the subscription exists SIGINT has its
\* default disposition and ends the process, so the session only ever sees
\* events delivered after ctrl_c_register; the handler stays installed after
\* the listener has returned, and later events are absorbed.
Interrupt ==
    /\ lpc \notin {"init", "failed"}
    /\ interrupts < MaxInterrupts
    /\ interrupts' = interrupts + 1
    /\ sigPending' = TRUE
    /\ UNCHANGED <<pc, ret, acq, status, result, lpc, idx, txHolder, rxHolder,
                   attempts, sent, recv, fires, failOrder>>

\* A variant of ctrl_c_await that completes without any signal.
ctrl_c_await_Spurious ==
    /\ status["listener"] = "running"
    /\ lpc = "waiting"
    /\ lpc' = "sending"
    /\ idx' = 1
    /\ sigPending' = FALSE
    /\ fires' = fires + 1
    /\ UNCHANGED <<pc, ret, acq, status, result, txHolder, rxHolder, attempts,
                   sent, recv, interrupts, failOrder>>

\* tokio::signal::ctrl_c().await completes: the loop over txs starts.
ctrl_c_await ==
    /\ status["listener"] = "running"
    /\ lpc = "waiting"
    /\ sigPending
    /\ lpc' = "sending"
    /\ idx' = 1
    /\ sigPending' = FALSE
    /\ fires' = fires + 1
    /\ UNCHANGED <<pc, ret, acq, status, result, txHolder, rxHolder, attempts,
                   sent, recv, interrupts, failOrder>>

\* A variant of tx_send that propagates a failed send (tx.send(())?).
tx_send_StopOnErr ==
    /\ status["listener"] = "running"
    /\ lpc = "sending"
    /\ idx <= Len(txs)
    /\ LET c == txs[idx] IN
          /\ attempts' = [attempts EXCEPT ![c] = @ + 1]
          /\ IF rxHolder[c] # "dropped"
             THEN /\ sent' = [sent EXCEPT ![c] = @ + 1]
                  /\ txHolder' = [txHolder EXCEPT ![c] = "consumed"]
                  /\ idx' = idx + 1
                  /\ UNCHANGED <<status, result, lpc, failOrder>>
             ELSE /\ sent' = sent
                  /\ txHolder' = [d \in Collabs |->
                                    IF txHolder[d] = "listener" THEN "dropped"
                                    ELSE txHolder[d]]
                  /\ idx' = idx
                  /\ lpc' = "failed"
                  /\ status' = [status EXCEPT !["listener"] = "done"]
                  /\ result' = [result EXCEPT !["listener"] = "err"]
                  /\ failOrder' = Failed("listener", "err")
    /\ UNCHANGED <<pc, ret, acq, rxHolder, recv, interrupts, sigPending, fires>>

\* A variant of tx_send that drops the sender without sending.
tx_send_DropOnly ==
    /\ status["listener"] = "running"
    /\ lpc = "sending"
    /\ idx <= Len(txs)
    /\ txHolder' = [txHolder EXCEPT ![txs[idx]] = "dropped"]
    /\ idx' = idx + 1
    /\ UNCHANGED <<pc, ret, acq, status, result, lpc, rxHolder, attempts, sent,
                   recv, interrupts, sigPending, fires, failOrder>>

\* One iteration of `for tx in txs { tx.send(()).ok(); }`.
\* oneshot::Sender::send consumes the sender; it returns Err when the
\* receiver has been dropped, and .ok() discards that.
tx_send ==
    /\ status["listener"] = "running"
    /\ lpc = "sending"
    /\ idx <= Len(txs)
    /\ LET c == txs[idx] IN
          /\ attempts' = [attempts EXCEPT ![c] = @ + 1]
          /\ sent' = IF rxHolder[c] # "dropped"
                     THEN [sent EXCEPT ![c] = @ + 1]
                     ELSE sent
          /\ txHolder' = [txHolder EXCEPT ![c] = "consumed"]
    /\ idx' = idx + 1
    /\ UNCHANGED <<pc, ret, acq, status, result, lpc, rxHolder, recv,
                   interrupts, sigPending, fires, failOrder>>

\* A variant of the listener's return that goes back to waiting for ctrl-c.
listen_for_sigint_return_Loop ==
    /\ status["listener"] = "running"
    /\ lpc = "sending"
    /\ idx > Len(txs)
    /\ lpc' = "waiting"
    /\ UNCHANGED <<pc, ret, acq, status, result, idx, txHolder, rxHolder,
                   attempts, sent, recv, interrupts, sigPending, fires,
                   failOrder>>

\* The loop is over: Ok(())
listen_for_sigint_return ==
    /\ status["listener"] = "running"
    /\ lpc = "sending"
    /\ idx > Len(txs)
    /\ lpc' = "fired"
    /\ status' = [status EXCEPT !["listener"] = "done"]
    /\ result' = [result EXCEPT !["listener"] = "ok"]
    /\ UNCHANGED <<pc, ret, acq, idx, txHolder, rxHolder, attempts, sent, recv,
                   interrupts, sigPending, fires, failOrder>>

----------------------------------------------------------------------------
(* The collaborators: LogServer::run, Tunnel::run, Session::run *)

\* The collaborator's receiver yields the notification.
CollabObserve(c) ==
    /\ status[c] = "running"
    /\ rxHolder[c] = c
    /\ sent[c] > recv[c]
    /\ recv' = [recv EXCEPT ![c] = @ + 1]
    /\ UNCHANGED <<pc, ret, acq, status, result, lpc, idx, txHolder, rxHolder,
                   attempts, sent, interrupts, sigPending, fires, failOrder>>

\* The collaborator ends with outcome r and its receiver is dropped.
CollabEnd(c, r) ==
    /\ status' = [status EXCEPT ![c] = "done"]
    /\ result' = [result EXCEPT ![c] = r]
    /\ rxHolder' = [rxHolder EXCEPT ![c] = "dropped"]
    /\ failOrder' = Failed(c, r)
    /\ UNCHANGED <<pc, ret, acq, lpc, idx, txHolder, attempts, sent, recv,
                   interrupts, sigPending, fires>>

\* The collaborator ends of its own accord: it completes, fails or panics
\* without having observed a cancellation.
CollabExit(c) ==
    /\ status[c] = "running"
    /\ recv[c] = 0
    /\ \E r \in {"ok", "err", "panic"} : CollabEnd(c, r)

\* The collaborator returns after it has observed the cancellation.
CollabStop(c) ==
    /\ status[c] = "running"
    /\ recv[c] > 0
    /\ \E r \in {"ok", "err", "panic"} : CollabEnd(c, r)

----------------------------------------------------------------------------

Next ==
    \/ Runtime_new
    \/ oneshot_channel
    \/ spawn_listener
    \/ spawn_log_server
    \/ Tunnel_new
    \/ spawn_tunnel
    \/ spawn_session
    \/ try_join
    \/ ctrl_c_register
    \/ Interrupt
    \/ ctrl_c_await
    \/ tx_send
    \/ listen_for_sigint_return
    \/ \E c \in Collabs : CollabObserve(c)
    \/ \E c \in Collabs : CollabExit(c)
    \/ \E c \in Collabs : CollabStop(c)

Spec == Init /\ [][Next]_vars

\* The tokio scheduler runs every spawned task that can make progress and
\* polls the joined future when a handle resolves; a collaborator that has
\* been notified observes it and returns.  The operator's ctrl-c, the
\* collaborators ending of their own accord are not forced.
FairSpec ==
    /\ Spec
    /\ WF_vars(Runtime_new)
    /\ WF_vars(oneshot_channel)
    /\ WF_vars(spawn_listener)
    /\ WF_vars(spawn_log_server)
    /\ WF_vars(Tunnel_new)
    /\ WF_vars(spawn_tunnel)
    /\ WF_vars(spawn_session)
    /\ WF_vars(try_join)
    /\ WF_vars(ctrl_c_register)
    /\ WF_vars(ctrl_c_await)
    /\ WF_vars(tx_send)
    /\ WF_vars(listen_for_sigint_return)
    /\ \A c \in Collabs : WF_vars(CollabObserve(c))
    /\ \A c \in Collabs : WF_vars(CollabStop(c))

TypeOK ==
    /\ pc \in {"new_runtime", "channels", "spawn_listener", "spawn_log_server",
               "acquire", "spawn_tunnel", "spawn_session", "join", "returned"}
    /\ ret.tag \in {"running", "Ok", "Err"}
    /\ acq \in {"none", "ok", "failed"}
    /\ status \in [Units -> {"unspawned", "running", "done"}]
    /\ result \in [Units -> {"none", "ok", "err", "panic"}]
    /\ lpc \in {"init", "waiting", "sending", "fired", "failed"}
    /\ idx \in 1..(Len(txs) + 1)
    /\ interrupts \in 0..MaxInterrupts

----------------------------------------------------------------------------
(* Properties *)

\* C1: Tail::run returns Ok(()) only if every joined unit completed
\* successfully; if a joined unit finished with an error result before run
\* returned, run returns Err.
C1_OkOnlyIfAllSucceeded ==
    /\ ret.tag = "Ok" => \A u \in Units : result[u] = "ok"
    /\ (pc = "returned" /\ failOrder # <<>>) => ret.tag = "Err"

\* C2 as stated: whenever Tail::run has returned, with Ok or with Err, no
\* spawned unit is still running.
C2_JoinComplete_Orig ==
    ret.tag # "running" => \A u \in Units : status[u] # "running"

\* C2: when Tail::run returns Ok(()) every one of the four units has been
\* spawned and has completed, and when it fails to create the runtime nothing
\* was spawned; (on an acquisition error or a join error spawned units may
\* still be running).
C2_JoinComplete ==
    /\ ret.tag = "Ok" => \A u \in Units : status[u] = "done"
    /\ ret.err = "runtime" => \A u \in Units : status[u] = "unspawned"

C2_Witness ==
    /\ ret = RetOk
    /\ \A u \in Units : status[u] = "done"
    /\ interrupts > 0

\* C3: each consumer receives at most one notification, also when ctrl-c is
\* delivered several times; the listener fires at most once, and once it has
\* returned it sends nothing more.
C3_AtMostOnce ==
    /\ [](/\ fires <= 1
          /\ \A c \in Collabs : attempts[c] <= 1 /\ sent[c] <= 1 /\ recv[c] <= 1)
    /\ [][lpc = "fired" => (lpc' = "fired" /\ attempts' = attempts /\ sent' = sent)]_vars

C3_Witness ==
    /\ interrupts >= 2
    /\ lpc = "fired"
    /\ \A c \in Collabs : recv[c] = 1

\* C4: once the listener has observed ctrl-c it leaves the loop only after a
\* send was attempted on each of the three senders, in the order of txs; a
\* failed send neither stops the loop nor fails the listener, which returns
\* Ok(()).
C4_FanOut ==
    /\ fires > 0 => lpc \in {"sending", "fired"} /\ result["listener"] # "err"
    /\ lpc = "sending" =>
          \A k \in 1..Len(txs) : attempts[txs[k]] = (IF k < idx THEN 1 ELSE 0)
    /\ lpc = "fired" =>
          /\ \A c \in Collabs : attempts[c] = 1
          /\ result["listener"] = "ok"

C4_Witness ==
    /\ lpc = "fired"
    /\ result["listener"] = "ok"
    /\ attempts["log_server"] = 1 /\ sent["log_server"] = 0
    /\ sent["tunnel"] = 1 /\ sent["session"] = 1

\* C5: when two joined units have failed with error results E1 and then E2
\* before run returned (and no task panicked), run returns Err carrying E1,
\* the earlier one.
C5_FirstErrorWins ==
    ( /\ pc = "returned" /\ acq = "ok"
      /\ JoinErrs = {}
      /\ Len(failOrder) >= 2
      /\ result[failOrder[1]] = "err" /\ result[failOrder[2]] = "err" )
    => (ret.tag = "Err" /\ ret.unit = failOrder[1])

\* C6: a failed Tunnel::new() makes run return that acquisition error, and
\* the tunnel and the session are never spawned; they are spawned only after
\* a successful acquisition, which is attempted only after the listener and
\* the log server were spawned.
C6_AcquisitionFailure ==
    /\ acq = "failed" =>
          /\ ret = RetErr("acquisition", "none")
          /\ status["tunnel"] = "unspawned"
          /\ status["session"] = "unspawned"
    /\ (status["tunnel"] # "unspawned" \/ status["session"] # "unspawned")
          => acq = "ok"
    /\ acq # "none" =>
          status["listener"] # "unspawned" /\ status["log_server"] # "unspawned"

C6_Witness ==
    /\ acq = "failed"
    /\ ret = RetErr("acquisition", "none")
    /\ status["log_server"] = "done"
    /\ lpc = "fired"

\* C7: when the listener's ctrl-c subscription failed, run returns Err.
C7_ListenerFailureFatal ==
    (pc = "returned" /\ lpc = "failed") => ret.tag = "Err"

\* C8: a notification is sent (or attempted, or received) only after ctrl-c
\* has occurred, and the step in which a collaborator ends, with whatever
\* outcome, sends nothing to any collaborator.
C8_SoleTrigger ==
    /\ [](\A c \in Collabs :
             (attempts[c] > 0 \/ sent[c] > 0 \/ recv[c] > 0) => interrupts > 0)
    /\ [][(\E c \in Collabs : status[c] = "running" /\ status'[c] = "done")
             => (sent' = sent /\ attempts' = attempts /\ recv' = recv)]_vars

C8_Witness ==
    /\ result["session"] = "err"
    /\ interrupts > 0
    /\ sent["log_server"] = 1 /\ recv["log_server"] = 1
    /\ attempts["session"] = 1 /\ sent["session"] = 0

\* The runtime was created, the acquisition did not fail, the subscription
\* did not fail and no collaborator has failed or panicked.
Healthy ==
    /\ ret.err # "runtime"
    /\ acq # "failed"
    /\ lpc # "failed"
    /\ \A c \in Collabs : result[c] \in {"none", "ok"}

\* C9: under fair scheduling, when nothing fails, ctrl-c is eventually
\* delivered and every collaborator returns Ok(()) once notified, run
\* eventually returns Ok(()).
C9_HappyPath ==
    ([]Healthy /\ <>(interrupts > 0)) => <>(ret = RetOk)

C9_Witness ==
    /\ ret = RetOk
    /\ interrupts > 0
    /\ \A c \in Collabs : recv[c] = 1
    /\ \A u \in Units : result[u] = "ok"

\* C10 as stated: when the three collaborators complete normally on their own
\* and no ctrl-c is ever delivered, run eventually returns Ok(()), and only
\* after all three have finished.
C10_NaturalCompletion_Orig ==
    /\ [](ret.tag = "Ok" => \A c \in Collabs : status[c] = "done")
    /\ ([](interrupts = 0) /\ <>(\A c \in Collabs : result[c] = "ok"))
          => <>(ret = RetOk)

\* C10: run returns Ok(()) only after all three collaborators have finished
\* and never while the listener is still running; with no ctrl-c delivered it
\* returns Ok(()) only if the listener's subscription failed, and in that
\* case, the three collaborators having completed normally, it eventually
\* does.
C10_NaturalCompletion ==
    /\ [](/\ ret.tag = "Ok" => \A c \in Collabs : status[c] = "done"
          /\ status["listener"] = "running" => ret.tag # "Ok"
          /\ (ret.tag = "Ok" /\ interrupts = 0) => lpc = "failed")
    /\ ( /\ [](interrupts = 0)
         /\ <>(\A c \in Collabs : result[c] = "ok")
         /\ <>(lpc = "failed") )
          => <>(ret = RetOk)

C10_Witness ==
    /\ interrupts = 0
    /\ \A c \in Collabs : result[c] = "ok" /\ recv[c] = 0
    /\ lpc = "waiting"
    /\ pc = "join"
    /\ ret.tag = "running"

\* C11: the step in which Tunnel::new() fails finds the log server already
\* spawned, returns the acquisition error at once, sends nothing on any
\* channel and changes no unit's status: the log server is neither told to
\* stop nor awaited, and is in whatever state it was in (it can be running).
C11_AcquisitionAsymmetry ==
    [][(acq # "failed" /\ acq' = "failed") =>
          /\ status["log_server"] # "unspawned"
          /\ ret' = RetErr("acquisition", "none")
          /\ attempts' = attempts /\ sent' = sent /\ recv' = recv
          /\ status' = status /\ result' = result
          /\ rxHolder'["log_server"] = rxHolder["log_server"]]_vars

C11_Witness ==
    /\ ret = RetErr("acquisition", "none")
    /\ status["log_server"] = "running"
    /\ rxHolder["log_server"] = "log_server"
    /\ attempts["log_server"] = 0
    /\ interrupts = 0

\* C12: under fair scheduling, once a spawned unit has finished with an error
\* result while run is joining, run returns Err carrying the error of a unit
\* that failed, whether or not the other units ever finish.
C12_EarlyTermination ==
    (pc = "join" /\ \E u \in Units : result[u] = "err")
       ~> (ret.tag = "Err" /\ ret.unit \in Units /\ result[ret.unit] = "err")

\* C13: there are three channels, one per collaborator. Once the listener is
\* spawned every sender is owned by the listener until its send consumes it or
\* the listener drops it: run keeps none and no collaborator ever owns one.
\* Each receiver is owned by run until its collaborator is spawned, then by
\* that collaborator and by no other, until it is dropped.
C13_SignalOwnership ==
    /\ Cardinality(Collabs) = 3
    /\ Len(txs) = 3 /\ {txs[i] : i \in 1..Len(txs)} = Collabs
    /\ \A c \in Collabs :
          /\ txHolder[c] \in {"none", "run", "listener", "consumed", "dropped"}
          /\ txHolder[c] = "none" <=> pc \in {"new_runtime", "channels"} \/ ret.err = "runtime"
          /\ txHolder[c] = "run" <=> (pc = "spawn_listener")
          /\ status["listener"] # "unspawned" =>
                txHolder[c] \in {"listener", "consumed", "dropped"}
          /\ rxHolder[c] \in {"none", "run", c, "dropped"}
          /\ rxHolder[c] = "none" <=> txHolder[c] = "none"
          /\ rxHolder[c] = "run" => status[c] = "unspawned"
          /\ rxHolder[c] = c => status[c] = "running"
          /\ status[c] # "unspawned" => rxHolder[c] \in {c, "dropped"}

C13_Witness ==
    /\ pc = "join"
    /\ \A c \in Collabs : txHolder[c] = "listener" /\ rxHolder[c] = c

\* C14: when run has returned Ok(()), the listener has completed in one of
\* its two ways: it fired once on a ctrl-c that was delivered and returned
\* Ok(()), or its subscription failed.
C14_NoOkBeforeInterrupt ==
    /\ fires > 0 => interrupts > 0
    /\ ret.tag = "Ok" =>
          \/ lpc = "fired" /\ fires = 1 /\ result["listener"] = "ok"
          \/ lpc = "failed" /\ fires = 0 /\ result["listener"] = "err"

C14_Witness ==
    /\ ret = RetOk
    /\ lpc = "fired"
    /\ \A c \in Collabs : recv[c] = 0 /\ attempts[c] = 1

\* C15: when the listener's subscription has failed, the listener has ended
\* with Err without any send: the three senders are dropped unsent and no
\* consumer has received, or will receive, a notification.
C15_SubscriptionFailureSendsNothing ==
    lpc = "failed" =>
       /\ status["listener"] = "done" /\ result["listener"] = "err"
       /\ fires = 0
       /\ \A c \in Collabs :
             /\ txHolder[c] = "dropped"
             /\ attempts[c] = 0 /\ sent[c] = 0 /\ recv[c] = 0

C15_Witness ==
    /\ lpc = "failed"
    /\ pc = "join"
    /\ \A c \in Collabs : status[c] = "running" /\ txHolder[c] = "dropped"

\* C16: a unit that panicked before run returned from the join makes run
\* return Err with a join error, never Ok(()); and, under fair scheduling,
\* once a panicked unit is there while run is joining, run returns that Err
\* whether or not the remaining units ever finish.
C16_JoinErrorReturnsEarly ==
    /\ [](ret.tag = "Ok" => JoinErrs = {})
    /\ []((pc = "returned" /\ acq = "ok" /\ ret.tag = "Err") =>
             (ret.err = "join" /\ result[ret.unit] = "panic"))
    /\ [](pc = "join" /\ JoinErrs # {} => ENABLED try_join)
    /\ (pc = "join" /\ JoinErrs # {}) ~> (ret.err = "join")

C16_Witness ==
    /\ ret.err = "join"
    /\ result[ret.unit] = "panic"
    /\ \E u \in Units : status[u] = "running"
    /\ status["listener"] = "running"

====
